---- MODULE Spec2Model ----
(***************************************************************************)
(* Discovery controller of the discovery agent: the lifecycle state        *)
(* machine driven by Controller.run, the link and host registries, the     *)
(* export tree mirror and the configuration adapter.                       *)
(***************************************************************************)
EXTENDS Integers, Sequences, FiniteSets, TLC

(***************************************************************************)
(* Bounds of the model                                                     *)
(***************************************************************************)
\* ingress ports are 1..MaxPort
MaxPort == 2
\* the clock advances at most MaxTicks times
MaxTicks == 2
\* the packet listener handles at most MaxFrames frames
MaxFrames == 2
\* UpdateConfig is called at most MaxUpdates times
MaxUpdates == 2

(***************************************************************************)
(* Program constants                                                       *)
(***************************************************************************)
\* pruneLinks: limit := time.Now().Add(-30 * time.Second)
LinkAgeLimit == 30
\* pruneHosts: limit := time.Now().Add(-30 * time.Minute)
HostAgeMinutes == 30
HostAgeLimit == HostAgeMinutes * 60

\* The clock advances in steps of the link age limit, so that ages below,
\* equal to and above the limit all occur.
TimeStep == LinkAgeLimit
MaxTime == MaxTicks * TimeStep

Ports == 1..MaxPort
\* the remote endpoints the probe frames report
Remotes == {<<7, "deviceB">>, <<8, "deviceB">>, <<7, "deviceC">>}
MACs == {"m1", "m2"}
IPs == {"ip1", "ip2"}

\* type State (iota order)
Disconnected == "Disconnected"
Connected == "Connected"
PipelineConfigAvailable == "PipelineConfigAvailable"
Elected == "Elected"
PortsDiscovered == "PortsDiscovered"
Configured == "Configured"
Reconfigured == "Reconfigured"
Stopped == "Stopped"
States == {Disconnected, Connected, PipelineConfigAvailable, Elected,
           PortsDiscovered, Configured, Reconfigured, Stopped}

\* loadConfig: the defaults used when no configuration file is readable
DefaultConfig == [EmitFrequency |-> 5, MaxLinkAge |-> 30,
                  PipelineValidationFrequency |-> 60,
                  PortRediscoveryFrequency |-> 60,
                  LinkPruneFrequency |-> 2]
\* a configuration with a shorter link age and faster timers
ShortConfig == [EmitFrequency |-> 1, MaxLinkAge |-> 10,
                PipelineValidationFrequency |-> 60,
                PortRediscoveryFrequency |-> 60,
                LinkPruneFrequency |-> 1]
\* a configuration whose prune period is zero
ZeroConfig == [EmitFrequency |-> 5, MaxLinkAge |-> 30,
               PipelineValidationFrequency |-> 60,
               PortRediscoveryFrequency |-> 60,
               LinkPruneFrequency |-> 0]
ConfigValues == {DefaultConfig, ShortConfig, ZeroConfig}
\* those NewTicker accepts
PositiveConfigs == {DefaultConfig, ShortConfig}
ConfigFields == <<"EmitFrequency", "MaxLinkAge", "PipelineValidationFrequency",
                  "PortRediscoveryFrequency", "LinkPruneFrequency">>

VARIABLES
    state,      \* Controller.state
    pc,         \* position of the worker goroutine (Controller.run)
    config,     \* Controller.config
    treeCfg,    \* the config/ branch of the configuration tree
    upc,        \* position of the caller inside UpdateConfig (0 = not inside)
    tickers,    \* periods of the tickers of the running enterDiscovery
    listeners,  \* number of handlePackets goroutines started
    frames,     \* number of frames the packet listener has handled
    links,      \* Controller.links: ingress port -> address of a Link
    heap,       \* the Link objects, by address
    snap,       \* the slice last returned by GetLinks to a caller
    hosts,      \* Controller.hosts (a nil map after NewController)
    tree,       \* the state/ branch of the export tree: path -> typed value
    sent,       \* notifications the last step sent to the subscribe responders
    now,        \* wall clock, in seconds
    rules,      \* number of times the packet intercept rules were programmed
    activeTickers, \* tickers created by time.NewTicker and never stopped
    updates,    \* number of UpdateConfig calls made so far
    crash       \* "none", or the panic that ended the process

vars == <<state, pc, config, treeCfg, upc, tickers, listeners, frames, links, heap,
          snap, hosts, tree, sent, now, rules, activeTickers, updates, crash>>

(***************************************************************************)
(* Helpers                                                                 *)
(***************************************************************************)
Range(f) == {f[x] : x \in DOMAIN f}

\* all orders in which a Go range statement may visit the keys S of a map
RECURSIVE Orders(_)
Orders(S) ==
    IF S = {} THEN {<<>>}
    ELSE UNION {{<<x>> \o o : o \in Orders(S \ {x})} : x \in S}

\* gnmi.TypedValue
IntVal(i) == [kind |-> "int", int |-> i, str |-> ""]
UintVal(i) == [kind |-> "uint", int |-> i, str |-> ""]
StringVal(s) == [kind |-> "string", int |-> 0, str |-> s]

\* time.Time.Before
Before(t, u) == t < u

(***************************************************************************)
(* Link registry                                                           *)
(***************************************************************************)
\* addresses of Link objects: the registry holds at most MaxPort of them, a
\* returned slice keeps at most MaxPort more alive, and a replacement
\* allocates one before the replaced object is unlinked
Addrs == 1..(2 * MaxPort + 1)
NoLink == [EgressPort |-> 0, EgressDeviceID |-> "", IngressPort |-> 0, LastUpdate |-> 0]

\* a free address for link = &Link{...}
Alloc(ls, sn) ==
    LET free == Addrs \ (Range(ls) \cup Range(sn))
    IN CHOOSE a \in free : \A b \in free : a <= b

\* objects reachable from neither the registry nor a returned slice are
\* reclaimed by the garbage collector
Collect(hp, ls, sn) ==
    LET used == Range(ls) \cup Range(sn)
    IN [a \in Addrs |-> IF a \in used THEN hp[a] ELSE NoLink]

\* link = &Link{EgressPort: ..., EgressDeviceID: ..., IngressPort: ...}
NewLink_swapped(ingressPort, egressPort, egressDeviceID) ==
    [EgressPort |-> ingressPort, EgressDeviceID |-> egressDeviceID,
     IngressPort |-> egressPort, LastUpdate |-> 0]
NewLink(ingressPort, egressPort, egressDeviceID) ==
    [EgressPort |-> egressPort, EgressDeviceID |-> egressDeviceID,
     IngressPort |-> ingressPort, LastUpdate |-> 0]

\* !ok || link.EgressPort != egressPort || link.EgressDeviceID != egressDeviceID
IsNewLink_portOnly(ls, hp, ingressPort, egressPort, egressDeviceID) ==
    \/ ingressPort \notin DOMAIN ls
    \/ hp[ls[ingressPort]].EgressPort # egressPort
IsNewLink(ls, hp, ingressPort, egressPort, egressDeviceID) ==
    \/ ingressPort \notin DOMAIN ls
    \/ hp[ls[ingressPort]].EgressPort # egressPort
    \/ hp[ls[ingressPort]].EgressDeviceID # egressDeviceID

\* fmt.Sprintf("state/link[port=%d]", ingressPort), as path elements
LinkPath(ingressPort) == <<"state", "link[port=" \o ToString(ingressPort) \o "]">>
\* fmt.Sprintf("state/host[mac=%s]", macString)
HostPath(macString) == <<"state", "host[mac=" \o macString \o "]">>
\* fmt.Sprintf("state/link[mac=%s]", macString)
HostLinkPath(macString) == <<"state", "link[mac=" \o macString \o "]">>

\* Node.AddPath: sets the value at the path, creating it when absent
AddPath(tr, path, val) ==
    [q \in DOMAIN tr \cup {path} |-> IF q = path THEN val ELSE tr[q]]
\* Node.DeletePath: removes the node at the path with everything below it
DeletePath(tr, path) ==
    [q \in {r \in DOMAIN tr : ~(Len(r) >= Len(path) /\ SubSeq(r, 1, Len(path)) = path)}
        |-> tr[q]]

UpdateNotification(paths) == [op |-> "update", paths |-> paths]
DeleteNotification(path) == [op |-> "delete", paths |-> <<path>>]

\* addLinkToTree: the three AddPath calls
addLinkToTree(tr, ingressPort, egressPort, egressDeviceID, t) ==
    AddPath(AddPath(AddPath(tr,
        LinkPath(ingressPort) \o <<"egress-port">>, IntVal(egressPort)),
        LinkPath(ingressPort) \o <<"egress-device">>, StringVal(egressDeviceID)),
        LinkPath(ingressPort) \o <<"create-time">>, UintVal(t))
\* addLinkToTree: the notification forwarded to the subscribe responders
addLinkNotification(ingressPort) ==
    UpdateNotification(<<LinkPath(ingressPort) \o <<"egress-port">>,
                         LinkPath(ingressPort) \o <<"egress-device">>,
                         LinkPath(ingressPort) \o <<"create-time">> >>)

\* removeLinkFromTree, were it to leave the tree as it is
removeLinkFromTree_keep(tr, ingressPort) == tr
\* removeLinkFromTree
removeLinkFromTree(tr, ingressPort) == DeletePath(tr, LinkPath(ingressPort))

\* updateIngressLink, under c.lock
updateIngressLink(ingressPort, egressPort, egressDeviceID) ==
    IF IsNewLink(links, heap, ingressPort, egressPort, egressDeviceID)
    THEN LET a == Alloc(links, snap)
             ls == [q \in DOMAIN links \cup {ingressPort} |->
                        IF q = ingressPort THEN a ELSE links[q]]
             hp == [heap EXCEPT ![a] =
                        [NewLink(ingressPort, egressPort, egressDeviceID)
                            EXCEPT !.LastUpdate = now]]
         IN /\ links' = ls
            /\ heap' = Collect(hp, ls, snap)
            /\ tree' = addLinkToTree(tree, ingressPort, egressPort, egressDeviceID, now)
            /\ sent' = <<addLinkNotification(ingressPort)>>
    ELSE /\ heap' = [heap EXCEPT ![links[ingressPort]].LastUpdate = now]
         /\ sent' = <<>>
         /\ UNCHANGED <<links, tree>>

\* pruneLinks: limit := time.Now().Add(-30 * time.Second)
pruneLimit(t) == t - LinkAgeLimit

\* pruneLinks: the keys whose link.LastUpdate.Before(limit)
StaleLinks_inclusive(ls, hp, t) ==
    {p \in DOMAIN ls : hp[ls[p]].LastUpdate <= pruneLimit(t)}
StaleLinks(ls, hp, t) ==
    {p \in DOMAIN ls : Before(hp[ls[p]].LastUpdate, pruneLimit(t))}

RECURSIVE removeLinksFromTree(_, _)
removeLinksFromTree(tr, order) ==
    IF order = <<>> THEN tr
    ELSE removeLinksFromTree(removeLinkFromTree(tr, Head(order)), Tail(order))

\* pruneLinks, under c.lock: deleteLink for every stale key, in map order
pruneLinks ==
    LET stale == StaleLinks(links, heap, now)
        ls == [q \in DOMAIN links \ stale |-> links[q]]
    IN \E order \in Orders(stale) :
        /\ links' = ls
        /\ heap' = Collect(heap, ls, snap)
        /\ tree' = removeLinksFromTree(tree, order)
        /\ sent' = [i \in DOMAIN order |-> DeleteNotification(LinkPath(order[i]))]

\* sort.SliceStable(links, less): stable insertion by IngressPort
RECURSIVE InsertStable(_, _, _)
InsertStable(sorted, a, hp) ==
    IF sorted = <<>> THEN <<a>>
    ELSE IF hp[a].IngressPort < hp[Head(sorted)].IngressPort
         THEN <<a>> \o sorted
         ELSE <<Head(sorted)>> \o InsertStable(Tail(sorted), a, hp)
SortSliceStable_unsorted(s, hp) == s
RECURSIVE SortSliceStable(_, _)
SortSliceStable(s, hp) ==
    IF s = <<>> THEN <<>>
    ELSE InsertStable(SortSliceStable(SubSeq(s, 1, Len(s) - 1), hp), s[Len(s)], hp)

\* GetLinks, under c.lock.RLock: the Link pointers in map order, then sorted
GetLinks ==
    \E order \in Orders(DOMAIN links) :
        LET sn == SortSliceStable([i \in DOMAIN order |-> links[order[i]]], heap)
        IN /\ snap' = sn
           /\ heap' = Collect(heap, links, sn)
           /\ sent' = <<>>
           /\ UNCHANGED <<links, tree>>

(***************************************************************************)
(* Host registry                                                           *)
(***************************************************************************)
\* NewController sets ports and links with make(...) and leaves hosts unset:
\* a nil map
NilHosts == [isNil |-> TRUE, m |-> <<>>]

\* !ok || host.MAC != macString || host.IP != ipString || host.Port != port
IsNewHost(hs, macString, ipString, port) ==
    \/ macString \notin DOMAIN hs.m
    \/ hs.m[macString].MAC # macString
    \/ hs.m[macString].IP # ipString
    \/ hs.m[macString].Port # port

\* addHostToTree: the three AddPath calls
addHostToTree(tr, macString, ipString, port, t) ==
    AddPath(AddPath(AddPath(tr,
        HostPath(macString) \o <<"port">>, IntVal(port)),
        HostLinkPath(macString) \o <<"ip-address">>, StringVal(ipString)),
        HostLinkPath(macString) \o <<"create-time">>, UintVal(t))
\* addHostToTree: the notification forwarded to the subscribe responders
addHostNotification(macString) ==
    UpdateNotification(<<HostPath(macString) \o <<"port">>,
                         HostLinkPath(macString) \o <<"ip-address">>,
                         HostLinkPath(macString) \o <<"create-time">> >>)

\* removeHostFromTree
removeHostFromTree(tr, macString) == DeletePath(tr, HostPath(macString))

\* updateHost, under c.lock; c.hosts[macString] = host panics on a nil map
updateHost(macString, ipString, port) ==
    IF IsNewHost(hosts, macString, ipString, port)
    THEN IF hosts.isNil
         THEN /\ crash' = "nil map"
              /\ sent' = <<>>
              /\ UNCHANGED <<hosts, tree>>
         ELSE /\ hosts' = [hosts EXCEPT !.m =
                    [q \in DOMAIN hosts.m \cup {macString} |->
                        IF q = macString
                        THEN [MAC |-> macString, IP |-> ipString, Port |-> port,
                              LastUpdate |-> now]
                        ELSE hosts.m[q]]]
              /\ tree' = addHostToTree(tree, macString, ipString, port, now)
              /\ sent' = <<addHostNotification(macString)>>
              /\ UNCHANGED crash
    ELSE /\ hosts' = [hosts EXCEPT !.m[macString].LastUpdate = now]
         /\ sent' = <<>>
         /\ UNCHANGED <<tree, crash>>

\* pruneHosts: the keys whose host.LastUpdate.Before(limit)
StaleHosts(hs, t) ==
    {mac \in DOMAIN hs.m : Before(hs.m[mac].LastUpdate, t - HostAgeLimit)}

RECURSIVE removeHostsFromTree(_, _)
removeHostsFromTree(tr, order) ==
    IF order = <<>> THEN tr
    ELSE removeHostsFromTree(removeHostFromTree(tr, Head(order)), Tail(order))

\* pruneHosts, under c.lock: deleteHost for every stale key, in map order
pruneHosts ==
    LET stale == StaleHosts(hosts, now)
    IN \E order \in Orders(stale) :
        /\ hosts' = [hosts EXCEPT !.m = [q \in DOMAIN hosts.m \ stale |-> hosts.m[q]]]
        /\ tree' = removeHostsFromTree(tree, order)
        /\ sent' = [i \in DOMAIN order |-> DeleteNotification(HostPath(order[i]))]

(***************************************************************************)
(* Controller state                                                        *)
(***************************************************************************)
\* setState: c.state = state
setState(cur, new) == new

\* setStateIf: if c.state == condition { c.state = state }
setStateIf_unconditional(cur, condition, new) == new
setStateIf(cur, condition, new) == IF cur = condition THEN new ELSE cur

NoTickers == [EmitFrequency |-> 0, PipelineValidationFrequency |-> 0,
              PortRediscoveryFrequency |-> 0, LinkPruneFrequency |-> 0]

Alive == crash = "none"

\* NewController, with loadConfig returning one of the configurations cfgs
InitWith(cfgs) ==
    /\ state = Disconnected
    /\ pc = "notStarted"
    /\ config \in cfgs
    /\ treeCfg = config
    /\ upc = 0
    /\ tickers = NoTickers
    /\ listeners = 0
    /\ frames = 0
    /\ links = <<>>
    /\ heap = [a \in Addrs |-> NoLink]
    /\ snap = <<>>
    /\ hosts = NilHosts
    /\ tree = <<>>
    /\ sent = <<>>
    /\ now = 0
    /\ rules = 0
    /\ activeTickers = 0
    /\ updates = 0
    /\ crash = "none"

Init == InitWith(ConfigValues)

registry == <<links, heap, snap, hosts, tree>>
history == <<rules, activeTickers, updates>>

(***************************************************************************)
(* The worker: Start, run and the per-state handlers                       *)
(***************************************************************************)
\* Start: go c.run()
Start ==
    /\ Alive /\ pc = "notStarted"
    /\ pc' = "loop"
    /\ sent' = <<>>
    /\ UNCHANGED <<history, state, config, treeCfg, upc, tickers, listeners, frames, registry, now, crash>>

\* the handler run dispatches to for a state read by getState
Handler(s) ==
    CASE s = Disconnected -> "waitForDeviceConnection"
      [] s = Connected -> "waitForPipelineConfiguration"
      [] s = PipelineConfigAvailable -> "waitForMastershipArbitration"
      [] s = Elected -> "discoverPorts"
      [] s = PortsDiscovered -> "setupForDiscovery"
      [] s = Configured -> "enterDiscovery"
      [] s = Reconfigured -> "reenterDiscovery"
      [] s = Stopped -> "done"

\* run: state := c.getState(); state != Stopped; switch state
run ==
    /\ Alive /\ pc = "loop"
    /\ pc' = Handler(state)
    /\ sent' = <<>>
    /\ UNCHANGED <<history, state, config, treeCfg, upc, tickers, listeners, frames, registry, now, crash>>

\* a handler that awaits a device operation: the operation fails (the state
\* stays, run retries) or succeeds (the state advances if it is still from)
Await(at, from, to) ==
    /\ Alive /\ pc = at
    /\ \E ok \in BOOLEAN : state' = IF ok THEN setStateIf(state, from, to) ELSE state
    /\ pc' = "loop"
    /\ sent' = <<>>
    /\ UNCHANGED <<history, config, treeCfg, upc, tickers, listeners, frames, registry, now, crash>>

waitForDeviceConnection == Await("waitForDeviceConnection", Disconnected, Connected)
waitForPipelineConfiguration ==
    Await("waitForPipelineConfiguration", Connected, PipelineConfigAvailable)
waitForMastershipArbitration ==
    Await("waitForMastershipArbitration", PipelineConfigAvailable, Elected)
discoverPorts == Await("discoverPorts", Elected, PortsDiscovered)

\* setupForDiscovery: c.programPacketInterceptRules()
programPacketInterceptRules ==
    /\ Alive /\ pc = "setupForDiscovery"
    /\ rules' = rules + 1
    /\ pc' = "setupForDiscovery.setState"
    /\ sent' = <<>>
    /\ UNCHANGED <<activeTickers, updates, state, config, treeCfg, upc, tickers, listeners, frames, registry, now, crash>>

\* setupForDiscovery: c.setState(Configured)
setupForDiscovery_setState ==
    /\ Alive /\ pc = "setupForDiscovery.setState"
    /\ state' = setState(state, Configured)
    /\ pc' = "setupForDiscovery.go"
    /\ sent' = <<>>
    /\ UNCHANGED <<history, config, treeCfg, upc, tickers, listeners, frames, registry, now, crash>>

\* setupForDiscovery: go c.handlePackets()
setupForDiscovery_go ==
    /\ Alive /\ pc = "setupForDiscovery.go"
    /\ listeners' = listeners + 1
    /\ pc' = "loop"
    /\ sent' = <<>>
    /\ UNCHANGED <<history, state, config, treeCfg, upc, tickers, frames, registry, now, crash>>

\* enterDiscovery: the tickers tLinks, tConf, tPorts and tPrune, in the order
\* of their creation, and the position of the worker before each creation
TickerFields == <<"EmitFrequency", "PipelineValidationFrequency",
                  "PortRediscoveryFrequency", "LinkPruneFrequency">>
TickerPc == <<"enterDiscovery", "enterDiscovery.tConf", "enterDiscovery.tPorts",
              "enterDiscovery.tPrune">>

\* the tickers of cfg that are created before a time.NewTicker call panics:
\* NewTicker panics on a period that is not positive
Created(cfg) ==
    {i \in DOMAIN TickerFields : \A j \in 1..i : cfg[TickerFields[j]] > 0}

\* enterDiscovery: the four time.NewTicker calls, for a configuration that
\* nobody writes meanwhile
enterDiscovery ==
    /\ Alive /\ pc = "enterDiscovery"
    /\ LET made == Created(config)
       IN /\ tickers' = [f \in DOMAIN tickers |->
                           IF \E i \in made : TickerFields[i] = f
                           THEN config[f] ELSE tickers[f]]
          /\ activeTickers' = activeTickers + Cardinality(made)
          /\ IF made = DOMAIN TickerFields
             THEN /\ pc' = "enterDiscovery.for"
                  /\ UNCHANGED crash
             ELSE /\ crash' = "NewTicker"
                  /\ UNCHANGED pc
    /\ sent' = <<>>
    /\ UNCHANGED <<rules, updates, state, config, treeCfg, upc, listeners, frames, registry, now>>

\* enterDiscovery: one time.NewTicker call, reading its period from c.config
\* without the lock
enterDiscovery_NewTicker ==
    /\ Alive
    /\ \E i \in DOMAIN TickerFields :
          /\ pc = TickerPc[i]
          /\ LET f == TickerFields[i]
             IN IF config[f] <= 0
                THEN /\ crash' = "NewTicker"
                     /\ UNCHANGED <<tickers, activeTickers, pc>>
                ELSE /\ tickers' = [tickers EXCEPT ![f] = config[f]]
                     /\ activeTickers' = activeTickers + 1
                     /\ pc' = IF i = Len(TickerFields) THEN "enterDiscovery.for"
                                                       ELSE TickerPc[i + 1]
                     /\ UNCHANGED crash
    /\ sent' = <<>>
    /\ UNCHANGED <<rules, updates, state, config, treeCfg, upc, listeners, frames, registry, now>>

\* enterDiscovery: for c.getState() == Configured
enterDiscovery_for ==
    /\ Alive /\ pc = "enterDiscovery.for"
    /\ pc' = IF state = Configured THEN "enterDiscovery.select" ELSE "loop"
    /\ sent' = <<>>
    /\ UNCHANGED <<history, state, config, treeCfg, upc, tickers, listeners, frames, registry, now, crash>>

\* enterDiscovery: case <-tLinks.C: c.emitLLDPPackets()
emitLLDPPackets ==
    /\ Alive /\ pc = "enterDiscovery.select"
    /\ pc' = "enterDiscovery.for"
    /\ sent' = <<>>
    /\ UNCHANGED <<history, state, config, treeCfg, upc, tickers, listeners, frames, registry, now, crash>>

\* enterDiscovery: case <-tPorts.C: c.discoverPorts()
rediscoverPorts ==
    /\ Alive /\ pc = "enterDiscovery.select"
    /\ state' = setStateIf(state, Elected, PortsDiscovered)
    /\ pc' = "enterDiscovery.for"
    /\ sent' = <<>>
    /\ UNCHANGED <<history, config, treeCfg, upc, tickers, listeners, frames, registry, now, crash>>

\* enterDiscovery: case <-tConf.C: c.validatePipelineConfiguration()
validatePipelineConfiguration ==
    /\ Alive /\ pc = "enterDiscovery.select"
    /\ pc' = "enterDiscovery.for"
    /\ sent' = <<>>
    /\ UNCHANGED <<history, state, config, treeCfg, upc, tickers, listeners, frames, registry, now, crash>>

\* enterDiscovery: case <-tPrune.C: c.pruneLinks()
pruneTick ==
    /\ Alive /\ pc = "enterDiscovery.select"
    /\ pruneLinks
    /\ pc' = "enterDiscovery.pruneHosts"
    /\ UNCHANGED <<history, state, config, treeCfg, upc, tickers, listeners, frames, snap, hosts,
                   now, crash>>

\* enterDiscovery: case <-tPrune.C: ... c.pruneHosts()
pruneTick_hosts ==
    /\ Alive /\ pc = "enterDiscovery.pruneHosts"
    /\ pruneHosts
    /\ pc' = "enterDiscovery.for"
    /\ UNCHANGED <<history, state, config, treeCfg, upc, tickers, listeners, frames, links, heap,
                   snap, now, crash>>

\* reenterDiscovery, were it to start a packet listener as setupForDiscovery
\* does
reenterDiscovery_restart ==
    /\ Alive /\ pc = "reenterDiscovery"
    /\ state' = setState(state, Configured)
    /\ listeners' = listeners + 1
    /\ pc' = "loop"
    /\ sent' = <<>>
    /\ UNCHANGED <<history, config, treeCfg, upc, tickers, frames, registry, now, crash>>

\* reenterDiscovery: c.setState(Configured)
reenterDiscovery ==
    /\ Alive /\ pc = "reenterDiscovery"
    /\ state' = setState(state, Configured)
    /\ pc' = "loop"
    /\ sent' = <<>>
    /\ UNCHANGED <<history, config, treeCfg, upc, tickers, listeners, frames, registry, now, crash>>

(***************************************************************************)
(* Callers: Stop, GetLinks, the configuration adapter, the packet listener *)
(***************************************************************************)
\* Stop: c.setState(Stopped)
Stop ==
    /\ Alive
    /\ state' = setState(state, Stopped)
    /\ sent' = <<>>
    /\ UNCHANGED <<history, pc, config, treeCfg, upc, tickers, listeners, frames, registry, now, crash>>

\* a caller of GetLinks keeps the returned slice
CallGetLinks ==
    /\ Alive
    /\ GetLinks
    /\ UNCHANGED <<history, state, pc, config, treeCfg, upc, tickers, listeners, frames, hosts,
                   now, crash>>

\* a write of one of cfgs to the config/ branch of the tree, after which
\* UpdateConfig is called
ConfigSetFrom(cfgs) ==
    /\ Alive /\ upc = 0 /\ updates < MaxUpdates
    /\ \E c \in cfgs : treeCfg' = c
    /\ upc' = 1
    /\ updates' = updates + 1
    /\ sent' = <<>>
    /\ UNCHANGED <<rules, activeTickers, state, pc, config, tickers, listeners, frames, registry, now, crash>>

ConfigSet == ConfigSetFrom(ConfigValues)

\* UpdateConfig: the five assignments c.config.X = root.GetPath("config/x")...
UpdateConfig_assign ==
    /\ Alive /\ upc \in 1..Len(ConfigFields)
    /\ config' = [config EXCEPT ![ConfigFields[upc]] = treeCfg[ConfigFields[upc]]]
    /\ upc' = upc + 1
    /\ sent' = <<>>
    /\ UNCHANGED <<history, state, pc, treeCfg, tickers, listeners, frames, registry, now, crash>>

\* UpdateConfig: saveConfig(c.config); c.setStateIf(Configured, Reconfigured)
UpdateConfig_setStateIf ==
    /\ Alive /\ upc = Len(ConfigFields) + 1
    /\ state' = setStateIf(state, Configured, Reconfigured)
    /\ upc' = 0
    /\ sent' = <<>>
    /\ UNCHANGED <<history, pc, config, treeCfg, tickers, listeners, frames, registry, now, crash>>

\* handlePackets: a probe frame heard on an ingress port
handleLLDP ==
    /\ Alive /\ listeners > 0 /\ frames < MaxFrames
    /\ \E p \in Ports, r \in Remotes : updateIngressLink(p, r[1], r[2])
    /\ frames' = frames + 1
    /\ UNCHANGED <<history, state, pc, config, treeCfg, upc, tickers, listeners, snap, hosts,
                   now, crash>>

\* handlePackets: a host-originated frame
handleHostPacket ==
    /\ Alive /\ listeners > 0 /\ frames < MaxFrames
    /\ \E mac \in MACs, ip \in IPs, p \in Ports : updateHost(mac, ip, p)
    /\ frames' = frames + 1
    /\ UNCHANGED <<history, state, pc, config, treeCfg, upc, tickers, listeners, links, heap,
                   snap, now>>

\* the wall clock advances
Tick ==
    /\ Alive /\ now + TimeStep <= MaxTime
    /\ now' = now + TimeStep
    /\ UNCHANGED <<history, state, pc, config, treeCfg, upc, tickers, listeners, frames, registry, sent,
                   crash>>

\* the worker up to the Configured state
Bootstrap ==
    \/ run
    \/ waitForDeviceConnection
    \/ waitForPipelineConfiguration
    \/ waitForMastershipArbitration
    \/ discoverPorts
    \/ programPacketInterceptRules
    \/ setupForDiscovery_setState
    \/ setupForDiscovery_go

\* the loop of enterDiscovery
SteadyState ==
    \/ enterDiscovery_for
    \/ emitLLDPPackets
    \/ rediscoverPorts
    \/ validatePipelineConfiguration
    \/ pruneTick
    \/ pruneTick_hosts

\* the worker up to and inside the steady-state loop, with no caller of
\* UpdateConfig
Discovery ==
    \/ Bootstrap
    \/ enterDiscovery
    \/ SteadyState

\* the worker against callers of UpdateConfig
Worker ==
    \/ Bootstrap
    \/ enterDiscovery_NewTicker
    \/ SteadyState
    \/ reenterDiscovery

Next ==
    \/ Start
    \/ Worker
    \/ Stop
    \/ CallGetLinks
    \/ ConfigSet
    \/ UpdateConfig_assign
    \/ UpdateConfig_setStateIf
    \/ handleLLDP
    \/ handleHostPacket
    \/ Tick

Spec == Init /\ [][Next]_vars

\* the lifecycle: the worker against Stop and the configuration adapter
LifecycleNext ==
    \/ Start
    \/ Worker
    \/ Stop
    \/ ConfigSet
    \/ UpdateConfig_assign
    \/ UpdateConfig_setStateIf
LifecycleSpec == Init /\ [][LifecycleNext]_vars

\* the registries: the worker's prune ticks against the packet listener and
\* the clock, for the configurations with positive periods
RegistryNext ==
    \/ Start
    \/ Discovery
    \/ handleLLDP
    \/ handleHostPacket
    \/ Tick
RegistrySpec == InitWith(PositiveConfigs) /\ [][RegistryNext]_vars

\* the registries with a caller of GetLinks
SnapshotNext ==
    \/ Start
    \/ Discovery
    \/ handleLLDP
    \/ Tick
    \/ CallGetLinks
SnapshotSpec == InitWith({DefaultConfig}) /\ [][SnapshotNext]_vars

\* the end-to-end scenario: defaults, link updates, the clock and the prune
\* ticks.  The worker goroutine keeps running, and the prune ticker fires
\* again and again while the worker waits in the select.
ScenarioNext ==
    \/ Start
    \/ Discovery
    \/ handleLLDP
    \/ Tick
ScenarioSpec ==
    /\ InitWith({DefaultConfig})
    /\ [][ScenarioNext]_vars
    /\ WF_vars(Discovery)
    /\ SF_vars(pruneTick)

\* the lifecycle under configurations with positive periods, with a worker
\* goroutine that keeps running once started
ConfigSetPositive == ConfigSetFrom(PositiveConfigs)
FairLifecycleNext ==
    \/ Start
    \/ Worker
    \/ Stop
    \/ ConfigSetPositive
    \/ UpdateConfig_assign
    \/ UpdateConfig_setStateIf
FairLifecycleSpec ==
    /\ InitWith(PositiveConfigs)
    /\ [][FairLifecycleNext]_vars
    /\ WF_vars(Worker)

\* a direct call of addHostToTree on the constructed controller
CallAddHostToTree(macString, ipString, port) ==
    /\ Alive
    /\ tree' = addHostToTree(tree, macString, ipString, port, now)
    /\ sent' = <<addHostNotification(macString)>>
    /\ UNCHANGED <<history, state, pc, config, treeCfg, upc, tickers, listeners, frames,
                   links, heap, snap, hosts, now, crash>>

\* deleteHost: delete(c.hosts, macString), a no-op on a nil map, and
\* c.removeHostFromTree(macString)
deleteHost(macString) ==
    /\ Alive
    /\ hosts' = [hosts EXCEPT !.m = [q \in DOMAIN hosts.m \ {macString} |-> hosts.m[q]]]
    /\ tree' = removeHostFromTree(tree, macString)
    /\ sent' = <<DeleteNotification(HostPath(macString))>>
    /\ UNCHANGED <<history, state, pc, config, treeCfg, upc, tickers, listeners, frames,
                   links, heap, snap, now, crash>>

\* the host branch of the export tree: addHostToTree and deleteHost applied to
\* the constructed controller for every MAC, address and port, as time passes
HostAdd == \E mac \in MACs, ip \in IPs, p \in Ports : CallAddHostToTree(mac, ip, p)
HostDelete == \E mac \in MACs : deleteHost(mac)
HostTreeNext ==
    \/ HostAdd
    \/ HostDelete
    \/ Tick
HostTreeSpec == InitWith({DefaultConfig}) /\ [][HostTreeNext]_vars

\* reconfiguration without Stop, from the default configuration: the worker
\* goroutine keeps running, and a call of UpdateConfig runs to its end
ReconfigureNext ==
    \/ Start
    \/ Worker
    \/ ConfigSet
    \/ UpdateConfig_assign
    \/ UpdateConfig_setStateIf
ReconfigureSpec ==
    /\ InitWith({DefaultConfig})
    /\ [][ReconfigureNext]_vars
    /\ WF_vars(Worker)
    /\ WF_vars(UpdateConfig_assign \/ UpdateConfig_setStateIf)

(***************************************************************************)
(* Properties                                                              *)
(***************************************************************************)
Age(p) == now - heap[links[p]].LastUpdate
WorkerEnded == pc \in {"notStarted", "done"} \/ ~Alive

\* C1: after Stop() the state eventually is Stopped for good and the worker
\* loop has terminated.
C1_StopTerminates == (state = Stopped) ~> [](state = Stopped /\ WorkerEnded)

\* C2: Stopped is terminal: no step takes the state from Stopped to another
\* state.
C2_StoppedIsTerminal == [][state = Stopped => state' = Stopped]_vars

\* a step of the worker that runs pruneLinks
PruneStep == pc = "enterDiscovery.select" /\ pc' = "enterDiscovery.pruneHosts"

\* C3: a prune pass removes exactly the links older than the configured
\* max link age and leaves the others as they were.
C3_PruneUsesConfiguredAge ==
    [][PruneStep =>
        /\ DOMAIN links' = {p \in DOMAIN links : Age(p) <= config.MaxLinkAge}
        /\ \A p \in DOMAIN links' : heap'[links'[p]] = heap[links[p]]]_vars

\* the links older than the default max link age
OverAge == {p \in DOMAIN links : Age(p) > DefaultConfig.MaxLinkAge}

\* C4: with the defaults and the state Configured, a link that is not
\* refreshed stays in the registry while its age is at most 30 s, and once
\* its age exceeds 30 s a prune tick removes it.
C4_DefaultAging ==
    /\ [][\A p \in DOMAIN links :
            Age(p) <= DefaultConfig.MaxLinkAge =>
                p \in DOMAIN links' /\ heap'[links'[p]].IngressPort = p]_vars
    /\ (state = Configured /\ OverAge # {}) ~> (OverAge = {} \/ state # Configured)
C4_Witness ==
    /\ config = DefaultConfig /\ state = Configured
    /\ sent = <<DeleteNotification(LinkPath(1))>>
    /\ 1 \notin DOMAIN links
    /\ now > DefaultConfig.MaxLinkAge

\* a step of the packet listener that applies updateIngressLink(p, ep, ed)
LinkUpdateStep(p, ep, ed) ==
    /\ Alive /\ listeners > 0
    /\ frames' = frames + 1
    /\ updateIngressLink(p, ep, ed)
SameRemote(p, ep, ed) ==
    /\ p \in DOMAIN links
    /\ heap[links[p]].EgressPort = ep
    /\ heap[links[p]].EgressDeviceID = ed

\* C5: a link update with the stored remote endpoint only refreshes the
\* timestamp and sends nothing; any other link update replaces the entry
\* and sends exactly one add; the timestamp is refreshed either way.
C5_RefreshOrReplace ==
    [][\A p \in Ports, r \in Remotes :
        LinkUpdateStep(p, r[1], r[2]) =>
            /\ p \in DOMAIN links'
            /\ heap'[links'[p]] = [EgressPort |-> r[1], EgressDeviceID |-> r[2],
                                   IngressPort |-> p, LastUpdate |-> now]
            /\ \A q \in DOMAIN links \ {p} :
                    q \in DOMAIN links' /\ heap'[links'[q]] = heap[links[q]]
            /\ SameRemote(p, r[1], r[2]) => sent' = <<>> /\ tree' = tree
            /\ ~SameRemote(p, r[1], r[2]) =>
                    /\ Len(sent') = 1
                    /\ sent'[1].op = "update"
                    /\ \A i \in DOMAIN sent'[1].paths :
                            SubSeq(sent'[1].paths[i], 1, 2) = LinkPath(p)
                    /\ tree'[LinkPath(p) \o <<"egress-port">>] = IntVal(r[1])
                    /\ tree'[LinkPath(p) \o <<"egress-device">>] = StringVal(r[2])]_vars
\* a link that was refreshed after it was added, with nothing sent
C5_Witness ==
    \E p \in DOMAIN links :
        /\ sent = <<>>
        /\ frames = 2
        /\ heap[links[p]].LastUpdate > tree[LinkPath(p) \o <<"create-time">>].int

\* C6: the registry holds one Link per ingress port, stored under its own
\* ingress port.
C6_OneLinkPerIngressPort ==
    /\ DOMAIN links \subseteq Ports
    /\ \A k \in DOMAIN links : heap[links[k]].IngressPort = k
    /\ \A j, k \in DOMAIN links : j # k => links[j] # links[k]
\* a prune pass has removed one link and left another
C6_Witness ==
    /\ Cardinality(DOMAIN links) >= 1
    /\ Len(sent) = 1 /\ sent[1].op = "delete"
    /\ frames = 2

\* C7: GetLinks returns exactly the links of the registry, by strictly
\* ascending ingress port.
C7_GetLinksSorted ==
    [][(links' = links /\ pc' = pc /\ now' = now /\ frames' = frames /\ CallGetLinks) =>
        /\ Len(snap') = Cardinality(DOMAIN links)
        /\ {snap'[i] : i \in DOMAIN snap'} = Range(links)
        /\ \A i, j \in DOMAIN snap' :
                i < j => heap'[snap'[i]].IngressPort < heap'[snap'[j]].IngressPort]_vars
\* two links, the one of the higher port inserted first, returned in order
C7_Witness ==
    /\ DOMAIN links = {1, 2}
    /\ links[2] < links[1]
    /\ snap = <<links[1], links[2]>>

\* C8: while a caller holds a returned list, no step changes a field of one
\* of its elements.
C8_SnapshotImmutable ==
    [][snap' = snap => \A i \in DOMAIN snap : heap'[snap[i]] = heap[snap[i]]]_vars

\* the last step of UpdateConfig
UpdateConfigReturns == upc = Len(ConfigFields) + 1 /\ upc' = 0

\* C9: UpdateConfig changes the state only from Configured, to Reconfigured,
\* and Reconfigured is entered only from Configured.
C9_ReconfiguredOnlyFromConfigured ==
    [][/\ UpdateConfigReturns =>
            state' = (IF state = Configured THEN Reconfigured ELSE state)
       /\ (state' = Reconfigured /\ state # Reconfigured) => state = Configured]_vars
C9_Witness == state = Reconfigured /\ upc = 0

\* C10: updateHost for an unknown or changed host completes without a
\* panic and leaves the Host entry in the registry with one add mirrored;
\* for an identical entry only the timestamp is refreshed.
C10_UpdateHostCompletes ==
    [][\A mac \in MACs, ip \in IPs, p \in Ports :
        (Alive /\ listeners > 0 /\ frames' = frames + 1 /\ updateHost(mac, ip, p)) =>
            /\ crash' = "none"
            /\ mac \in DOMAIN hosts'.m
            /\ hosts'.m[mac] = [MAC |-> mac, IP |-> ip, Port |-> p, LastUpdate |-> now]
            /\ IsNewHost(hosts, mac, ip, p) => Len(sent') = 1
            /\ ~IsNewHost(hosts, mac, ip, p) => sent' = <<>> /\ tree' = tree]_vars

\* the periods enterDiscovery reads from a configuration
Periods(cfg) == [f \in DOMAIN NoTickers |-> cfg[f]]
\* the worker is inside the for loop of enterDiscovery
SteadyPcs == {"enterDiscovery.for", "enterDiscovery.select", "enterDiscovery.pruneHosts"}
\* the worker is inside enterDiscovery, past its first time.NewTicker call
InEnterDiscovery == pc \in (Range(TickerPc) \ {"enterDiscovery"}) \union SteadyPcs

\* C11: without Stop, an UpdateConfig made while Configured takes the state
\* through Reconfigured back to Configured, and once no call of UpdateConfig
\* is in progress the worker eventually runs the steady-state loop with the
\* four periods of the configuration applied last.
C11_UpdateApplied ==
    /\ (state = Reconfigured) ~> (state = Configured)
    /\ (upc = 0 /\ state \in {Configured, Reconfigured}) ~>
          \/ upc # 0
          \/ /\ state = Configured
             /\ pc \in SteadyPcs
             /\ tickers = Periods(config)

\* C12: whatever integers UpdateConfig applies, the worker does not panic.
C12_NoPanicOnAnyConfig == crash # "NewTicker"

\* C13: a tick handler of enterDiscovery starts only while the state is
\* Configured.
C13_TicksOnlyWhileConfigured ==
    [][(pc = "enterDiscovery.select" /\ pc' # pc) => state = Configured]_vars

\* C14: at most the four tickers of the running enterDiscovery are active,
\* and none is active once enterDiscovery has returned.
C14_TickersReleased ==
    /\ activeTickers <= Len(TickerFields)
    /\ ~InEnterDiscovery => activeTickers = 0

\* C15: the four periods the steady-state loop runs with are those of one
\* configuration, never a mix of two.
C15_NoTornConfig ==
    pc \in SteadyPcs => \E c \in ConfigValues : tickers = Periods(c)

\* C16: a packet listener is started only after the intercept rules were
\* programmed, once per setupForDiscovery, and by nothing else: outside
\* setupForDiscovery the listeners started are as many as the times the
\* worker handled PortsDiscovered.
C16_OneListenerPerSetup ==
    /\ listeners <= rules
    /\ pc \notin {"setupForDiscovery.setState", "setupForDiscovery.go"} =>
          listeners = rules
C16_Witness ==
    /\ state = Configured /\ pc \in SteadyPcs
    /\ listeners = 1 /\ rules = 1
    /\ activeTickers = 2 * Len(TickerFields)

\* C17: once Stop() has set the state to Stopped, no packet listener is
\* started.
C17_NoListenerAfterStop ==
    [][state = Stopped => listeners' = listeners]_vars

\* the paths of the tree at or below state/link[port=p]
LinkSubtree(tr, p) ==
    {q \in DOMAIN tr : Len(q) >= Len(LinkPath(p)) /\ SubSeq(q, 1, Len(LinkPath(p))) = LinkPath(p)}

\* C18: the tree has a state/link[port=p] subtree exactly for the ingress
\* ports p of the registry, and its egress-port and egress-device are those
\* of the registry's link.
C18_TreeMirrorsLinks ==
    \A p \in Ports :
        /\ LinkSubtree(tree, p) # {} <=> p \in DOMAIN links
        /\ p \in DOMAIN links =>
              /\ LinkPath(p) \o <<"egress-port">> \in DOMAIN tree
              /\ LinkPath(p) \o <<"egress-device">> \in DOMAIN tree
              /\ tree[LinkPath(p) \o <<"egress-port">>] = IntVal(heap[links[p]].EgressPort)
              /\ tree[LinkPath(p) \o <<"egress-device">>] =
                    StringVal(heap[links[p]].EgressDeviceID)
C18_Witness ==
    \E p \in DOMAIN links, q \in Ports \ DOMAIN links :
        /\ sent = <<DeleteNotification(LinkPath(q))>>
        /\ LinkSubtree(tree, p) # {}
        /\ now = MaxTime

\* the paths addHostToTree writes for a MAC
HostAddPaths(macString) ==
    {HostPath(macString) \o <<"port">>,
     HostLinkPath(macString) \o <<"ip-address">>,
     HostLinkPath(macString) \o <<"create-time">>}
\* the paths of the tree inside the entries of its state/link list
LinkListPaths(tr) ==
    {q \in DOMAIN tr : Len(q) >= 2 /\
        \/ \E p \in Ports : SubSeq(q, 1, 2) = LinkPath(p)
        \/ \E mac \in MACs : SubSeq(q, 1, 2) = HostLinkPath(mac)}

\* C19: deleteHost(mac) leaves in the tree none of the paths addHostToTree
\* wrote for mac, and neither a host add nor a host eviction changes the
\* link entries of the tree.
C19_HostEvictionCleansTree ==
    [][/\ \A mac \in MACs :
            deleteHost(mac) => HostAddPaths(mac) \cap DOMAIN tree' = {}
       /\ (HostAdd \/ HostDelete) =>
            /\ LinkListPaths(tree') = LinkListPaths(tree)
            /\ \A q \in LinkListPaths(tree) : tree'[q] = tree[q]]_vars

====
